---- MODULE Spec2Model ----
(***************************************************************************)
(* Model of pth_tsp_search_nr_part1.c, the load-balanced program (second   *)
(* half of the file): a pool of worker threads running an iterative        *)
(* depth-first branch-and-bound search for the travelling salesman, with   *)
(* a shared best tour guarded by a reader/writer lock and a termination /  *)
(* work-donation protocol built on term_mutex and term_cond_var.           *)
(*                                                                         *)
(* Granularity.  Code that touches only a thread's own locals is one step. *)
(* Each critical section of best_tour_lock is one step (the lock makes it  *)
(* atomic).  term_mutex is explicit: acquiring it is a step of its own and *)
(* the critical section that follows is the next step, so a thread that    *)
(* was signalled and has not yet re-acquired the mutex is a visible state. *)
(* The two unsynchronised reads on line 870 are two steps.                 *)
(* pthread_cond_signal wakes exactly one blocked waiter and there are no   *)
(* spurious wake-ups in Spec.                                              *)
(***************************************************************************)
EXTENDS Integers, Sequences, FiniteSets, TLC

INFINITY == 1000000
NO_CITY == -1

\* Largest thread_count explored.
MaxThreads == 2

(***************************************************************************)
(* Input: cost matrices as Read_mat stores them, row-major in a flat array *)
(***************************************************************************)
MatOne == [n |-> 1, mat |-> <<0>>]
MatTwo == [n |-> 2, mat |-> <<0, 3,
                              4, 0>>]
MatThree == [n |-> 3, mat |-> <<0, 2, 3,
                                1, 0, 2,
                                4, 1, 0>>]
\* the matrix of the end-to-end example
MatC4 == [n |-> 4, mat |-> <<0, 1, 4, 5,
                             2, 0, 3, 1,
                             3, 2, 0, 2,
                             1, 5, 3, 0>>]
\* the only cheap cycle is 0 -> 2 -> 1 -> 3 -> 0
MatSecond == [n |-> 4, mat |-> <<0, 5, 1, 5,
                                 5, 0, 5, 1,
                                 5, 1, 0, 5,
                                 1, 5, 5, 0>>]
\* costs of the magnitude of the INFINITY sentinel
MatBig == [n |-> 3, mat |-> <<0, 600000, 600000,
                              600000, 0, 600000,
                              600000, 600000, 0>>]

Instances == {MatOne, MatTwo, MatThree, MatC4, MatSecond, MatBig}

\* Largest number of cities of the wide inputs below.
MaxCities == 10

\* m cities; the edge from city 0 to city j costs 600000 + j, the edges back
\* to city 0 cost 1 and every other edge 600000: each first move is popped
\* and all its continuations are pruned, so a thread's stack is its slice of
\* up to m-1 first moves
WideMat(m) ==
    [n |-> m,
     mat |-> [i \in 1 .. (m * m) |->
                IF (i - 1) \div m = (i - 1) % m THEN 0
                ELSE IF (i - 1) % m = 0 THEN 1
                ELSE IF (i - 1) \div m = 0 THEN 600000 + ((i - 1) % m)
                ELSE 600000]]

VARIABLES
    n,                    \* number of cities
    thread_count,
    mat,                  \* flat cost matrix, mat[n*i + j] in the code
    best_tour,            \* [cities, count, cost]
    threads_in_cond_wait,
    new_stack,            \* staging slot; <<>> is NULL
    new_stack_size,
    term_mutex,           \* set of ranks holding the mutex: {} or {r}
    pc,                   \* per thread: position in Search / Terminated
    stack_p,              \* per thread: its linked stack, head first
    my_count,             \* per thread: its tally of stack nodes
    l_best_tour,          \* per thread: local copy of best_tour.cost
    tour_p,               \* per thread: the tour popped and being expanded
    city,                 \* per thread: the city popped
    submitted,            \* history: tours handed to Check_best_tour
    expanded              \* history: tours popped and extended so far

vars == <<n, thread_count, mat, best_tour, threads_in_cond_wait, new_stack,
          new_stack_size, term_mutex, pc, stack_p, my_count, l_best_tour,
          tour_p, city, submitted, expanded>>

Ranks == 0 .. (thread_count - 1)

\* mat[n * i + j]; TLA+ sequences start at 1
Cost(i, j) == mat[n * i + j + 1]

NoTour == [cities |-> <<>>, cost |-> 0]

\* Initialize_tour followed by best_tour.cost = INFINITY
Initialize_tour(m) == [cities |-> [i \in 1 .. (m + 1) |-> NO_CITY], count |-> 0, cost |-> 0]

\* the state when main has created the threads, for one input and thread count
InitWith(inst, T) ==
    /\ n = inst.n
    /\ mat = inst.mat
    /\ thread_count = T
    /\ best_tour = [Initialize_tour(inst.n) EXCEPT !.cost = INFINITY]
    /\ threads_in_cond_wait = 0
    /\ new_stack = <<>>
    /\ new_stack_size = 0
    /\ term_mutex = {}
    /\ pc = [r \in 0 .. (T - 1) |-> "seed"]
    /\ stack_p = [r \in 0 .. (T - 1) |-> <<>>]
    /\ my_count = [r \in 0 .. (T - 1) |-> 0]
    /\ l_best_tour = [r \in 0 .. (T - 1) |-> INFINITY]
    /\ tour_p = [r \in 0 .. (T - 1) |-> NoTour]
    /\ city = [r \in 0 .. (T - 1) |-> NO_CITY]
    /\ submitted = {}
    /\ expanded = {}

Init == \E inst \in Instances, T \in 1 .. MaxThreads : InitWith(inst, T)

\* many first moves and little search: long stacks to split
InitWide == \E m \in 1 .. MaxCities, T \in 1 .. MaxThreads : InitWith(WideMat(m), T)

\* every first move costs 1 and has two feasible continuations, of which
\* only 0 -> 1 -> 2 -> 3 -> 0 can be completed
MatCrowd == [n |-> 4, mat |-> <<0, 1, 1, 1,
                                1, 0, 1, 600000,
                                1, 600000, 0, 1,
                                1, 600000, 600000, 0>>]

\* one more thread than Init explores, on one matrix only: two threads can
\* then hold work while a third is parked
InitCrowd == InitWith(MatCrowd, MaxThreads + 1)

(***************************************************************************)
(* Search, lines 645-677: the thread's slice of first moves                *)
(***************************************************************************)
quotient == (n - 1) \div thread_count
remainder == (n - 1) % thread_count
partial_tour_count(r) == IF r < remainder THEN quotient + 1 ELSE quotient
\* the first city of the slice with the remainder left out
first_final_cityNoRem(r) == r * partial_tour_count(r) + 1

first_final_city(r) ==
    IF r < remainder THEN r * partial_tour_count(r) + 1
    ELSE r * partial_tour_count(r) + remainder + 1
last_final_city(r) == first_final_city(r) + partial_tour_count(r) - 1

\* the seeded list: nodes are appended at the tail, so the first city is the head
SeedStack(r) ==
    [k \in 1 .. partial_tour_count(r) |->
        [tour_p |-> [cities |-> <<0>>, cost |-> 0],
         city |-> first_final_city(r) + k - 1,
         cost |-> mat[(first_final_city(r) + k - 1) + 1]]]

Seed(r) ==
    /\ pc[r] = "seed"
    /\ stack_p' = [stack_p EXCEPT ![r] = SeedStack(r)]
    /\ my_count' = [my_count EXCEPT ![r] = partial_tour_count(r)]
    /\ pc' = [pc EXCEPT ![r] = "term"]
    /\ UNCHANGED <<n, thread_count, mat, best_tour, threads_in_cond_wait, new_stack,
                   new_stack_size, term_mutex, l_best_tour, tour_p, city, submitted, expanded>>

(***************************************************************************)
(* Stack and tour helpers                                                  *)
(***************************************************************************)
\* a copy that leaves the cost field at zero
Dup_tourNoCost(t) == [cities |-> [i \in 1 .. Len(t.cities) |-> t.cities[i]], cost |-> 0]

\* Dup_tour copies the cities, the cost and the count
Dup_tour(t) == [cities |-> [i \in 1 .. Len(t.cities) |-> t.cities[i]], cost |-> t.cost]

\* Push: a new node, holding a copy of the tour, becomes the head
Push(t, c, w, stk) == <<[tour_p |-> Dup_tour(t), city |-> c, cost |-> w]>> \o stk

Empty(stk) == stk = <<>>

\* Visited that never finds the city (the scan of the tour left out)
VisitedNever(nbr, t) == FALSE

Visited(nbr, t) == \E i \in 1 .. Len(t.cities) : t.cities[i] = nbr

\* a test that prunes at half the bound
FeasibleHalfBound(c, nbr, t, lbest) ==
    ~Visited(nbr, t) /\ 2 * (t.cost + Cost(c, nbr)) < lbest

Feasible(c, nbr, t, lbest) ==
    ~Visited(nbr, t) /\ t.cost + Cost(c, nbr) < lbest

\* the loop of lines 694-699 without my_count++
RECURSIVE PushLoopNoCount(_, _, _, _, _)
PushLoopNoCount(nbr, c, t, lbest, acc) ==
    IF nbr <= 0 THEN acc
    ELSE PushLoopNoCount(nbr - 1, c, t, lbest,
                         IF Feasible(c, nbr, t, lbest)
                         THEN [acc EXCEPT !.stack = Push(t, nbr, Cost(c, nbr), @)]
                         ELSE acc)

\* Search, lines 694-699: for (nbr = n-1; nbr > 0; nbr--) if Feasible then Push
RECURSIVE PushLoop(_, _, _, _, _)
PushLoop(nbr, c, t, lbest, acc) ==
    IF nbr <= 0 THEN acc
    ELSE PushLoop(nbr - 1, c, t, lbest,
                  IF Feasible(c, nbr, t, lbest)
                  THEN [stack |-> Push(t, nbr, Cost(c, nbr), acc.stack),
                        count |-> acc.count + 1]
                  ELSE acc)

(***************************************************************************)
(* Split_stack, lines 913-967                                              *)
(***************************************************************************)
RECURSIVE SplitLoop(_)
SplitLoop(st) ==
    IF st.curr = <<>> THEN st
    ELSE LET a == [st EXCEPT !.my = Append(@, Head(st.curr)),
                             !.my_size = @ + 1,
                             !.curr = Tail(st.curr)]
         IN  IF a.curr # <<>>
             THEN SplitLoop([a EXCEPT !.new = Append(@, Head(a.curr)),
                                      !.new_size = @ + 1,
                                      !.curr = Tail(a.curr)])
             ELSE SplitLoop(a)

\* a split that cuts the list after its first half instead of alternating
Split_stackCut(stk) ==
    [my |-> SubSeq(stk, 1, (Len(stk) + 1) \div 2),
     new |-> SubSeq(stk, (Len(stk) + 1) \div 2 + 1, Len(stk)),
     curr |-> <<>>,
     my_size |-> (Len(stk) + 1) \div 2, new_size |-> Len(stk) \div 2]

\* a split that hands the top node to the staging list and keeps the second
Split_stackSwapped(stk) ==
    SplitLoop([my |-> <<stk[2]>>, new |-> <<stk[1]>>,
               curr |-> SubSeq(stk, 3, Len(stk)),
               my_size |-> 1, new_size |-> 1])

\* a split that stages every second node without unlinking it from the
\* donor's list
Split_stackShared(stk) ==
    [SplitLoop([my |-> <<stk[1]>>, new |-> <<stk[2]>>,
                curr |-> SubSeq(stk, 3, Len(stk)),
                my_size |-> 1, new_size |-> 1])
        EXCEPT !.my = stk, !.my_size = Len(stk)]

\* assumes at least two nodes, as the code does
Split_stack(stk) ==
    SplitLoop([my |-> <<stk[1]>>, new |-> <<stk[2]>>,
               curr |-> SubSeq(stk, 3, Len(stk)),
               my_size |-> 1, new_size |-> 1])

(***************************************************************************)
(* term_cond_var                                                           *)
(***************************************************************************)
Waiters == {q \in Ranks : pc[q] = "waiting"}

\* a broadcast that wakes nobody
BroadcastNobody(p) == p

\* pthread_cond_broadcast: every thread blocked in pthread_cond_wait is woken
Broadcast(p) == [q \in DOMAIN p |-> IF p[q] = "waiting" THEN "woken" ELSE p[q]]

\* pthread_cond_signal: the thread q blocked in pthread_cond_wait is woken
Signal(p, q) == [p EXCEPT ![q] = "woken"]

(***************************************************************************)
(* Terminated, lines 867-906                                               *)
(***************************************************************************)
\* line 878 without the Empty test: FALSE is returned whatever the stack holds
ElseBranchKeepWorking(r) == "pop"

\* line 878: else if (!Empty(*my_stack)) return FALSE; else lock the mutex
ElseBranch(r) == IF ~Empty(stack_p[r]) THEN "pop" ELSE "empty_lock"

\* line 870, first two conjuncts (threads_in_cond_wait read without the mutex)
TermCheckWaiters(r) ==
    /\ pc[r] = "term"
    /\ pc' = [pc EXCEPT ![r] =
                IF my_count[r] >= 2 /\ threads_in_cond_wait > 0
                THEN "term_staging" ELSE ElseBranch(r)]
    /\ UNCHANGED <<n, thread_count, mat, best_tour, threads_in_cond_wait, new_stack,
                   new_stack_size, term_mutex, stack_p, my_count, l_best_tour,
                   tour_p, city, submitted, expanded>>

\* line 870, third conjunct (new_stack read without the mutex)
TermCheckStaging(r) ==
    /\ pc[r] = "term_staging"
    /\ pc' = [pc EXCEPT ![r] =
                IF new_stack = <<>> THEN "split_lock" ELSE ElseBranch(r)]
    /\ UNCHANGED <<n, thread_count, mat, best_tour, threads_in_cond_wait, new_stack,
                   new_stack_size, term_mutex, stack_p, my_count, l_best_tour,
                   tour_p, city, submitted, expanded>>

\* pthread_mutex_lock on lines 871 and 881, and the re-acquisition inside
\* pthread_cond_wait on line 889
LockTarget(p) ==
    IF p = "split_lock" THEN "split_cs"
    ELSE IF p = "empty_lock" THEN "empty_cs" ELSE "awake_cs"

Lock(r) ==
    /\ pc[r] \in {"split_lock", "empty_lock", "woken"}
    /\ term_mutex = {}
    /\ term_mutex' = {r}
    /\ pc' = [pc EXCEPT ![r] = LockTarget(pc[r])]
    /\ UNCHANGED <<n, thread_count, mat, best_tour, threads_in_cond_wait, new_stack,
                   new_stack_size, stack_p, my_count, l_best_tour,
                   tour_p, city, submitted, expanded>>

\* the re-check under the mutex left out
CanDonateAlways == TRUE

\* line 872
CanDonate == threads_in_cond_wait > 0 /\ new_stack = <<>>

\* lines 872-877
Donate(r) ==
    /\ pc[r] = "split_cs"
    /\ term_mutex = {r}
    /\ IF CanDonate
       THEN LET sp == Split_stack(stack_p[r]) IN
            /\ stack_p' = [stack_p EXCEPT ![r] = sp.my]
            /\ my_count' = [my_count EXCEPT ![r] = sp.my_size]
            /\ new_stack' = sp.new
            /\ new_stack_size' = sp.new_size
            /\ IF Waiters = {}
               THEN pc' = [pc EXCEPT ![r] = "pop"]
               ELSE \E q \in Waiters : pc' = [Signal(pc, q) EXCEPT ![r] = "pop"]
       ELSE /\ pc' = [pc EXCEPT ![r] = "pop"]
            /\ UNCHANGED <<stack_p, my_count, new_stack, new_stack_size>>
    /\ term_mutex' = {}
    /\ UNCHANGED <<n, thread_count, mat, best_tour, threads_in_cond_wait,
                   l_best_tour, tour_p, city, submitted, expanded>>

\* line 882
LastRunning == threads_in_cond_wait = thread_count - 1

\* lines 882-889: last thread running broadcasts and quits, any other thread
\* counts itself and blocks in pthread_cond_wait, which releases the mutex
StackEmpty(r) ==
    /\ pc[r] = "empty_cs"
    /\ term_mutex = {r}
    /\ threads_in_cond_wait' = threads_in_cond_wait + 1
    /\ pc' = IF LastRunning
             THEN [Broadcast(pc) EXCEPT ![r] = "done"]
             ELSE [pc EXCEPT ![r] = "waiting"]
    /\ term_mutex' = {}
    /\ UNCHANGED <<n, thread_count, mat, best_tour, new_stack, new_stack_size,
                   stack_p, my_count, l_best_tour, tour_p, city, submitted, expanded>>

\* a woken thread that takes the work branch even when every thread is counted
GotWorkAlways == threads_in_cond_wait <= thread_count

\* line 891
GotWork == threads_in_cond_wait < thread_count

\* lines 891-902, with the mutex re-acquired
Awakened(r) ==
    /\ pc[r] = "awake_cs"
    /\ term_mutex = {r}
    /\ IF GotWork
       THEN /\ stack_p' = [stack_p EXCEPT ![r] = new_stack]
            /\ my_count' = [my_count EXCEPT ![r] = new_stack_size]
            /\ new_stack' = <<>>
            /\ new_stack_size' = 0
            /\ threads_in_cond_wait' = threads_in_cond_wait - 1
            /\ pc' = [pc EXCEPT ![r] = "pop"]
       ELSE /\ pc' = [pc EXCEPT ![r] = "done"]
            /\ UNCHANGED <<stack_p, my_count, new_stack, new_stack_size,
                           threads_in_cond_wait>>
    /\ term_mutex' = {}
    /\ UNCHANGED <<n, thread_count, mat, best_tour, l_best_tour, tour_p, city,
                   submitted, expanded>>

(***************************************************************************)
(* Search, lines 685-704                                                   *)
(***************************************************************************)
\* lines 686-690: Pop, then the popped city is appended to the popped tour
Pop(r) ==
    /\ pc[r] = "pop"
    /\ ~Empty(stack_p[r])
    /\ LET top == Head(stack_p[r]) IN
        /\ tour_p' = [tour_p EXCEPT ![r] =
                        [cities |-> Append(top.tour_p.cities, top.city),
                         cost |-> top.tour_p.cost + top.cost]]
        /\ city' = [city EXCEPT ![r] = top.city]
    /\ stack_p' = [stack_p EXCEPT ![r] = Tail(stack_p[r])]
    /\ my_count' = [my_count EXCEPT ![r] = my_count[r] - 1]
    /\ pc' = [pc EXCEPT ![r] = "visit"]
    /\ expanded' = expanded \cup {Append(Head(stack_p[r]).tour_p.cities,
                                         Head(stack_p[r]).city)}
    /\ UNCHANGED <<n, thread_count, mat, best_tour, threads_in_cond_wait, new_stack,
                   new_stack_size, term_mutex, l_best_tour, submitted>>

\* lines 693-703: the tour is not complete; push its feasible neighbours, free it
PushNbrs(r) ==
    /\ pc[r] = "visit"
    /\ Len(tour_p[r].cities) # n
    /\ LET res == PushLoop(n - 1, city[r], tour_p[r], l_best_tour[r],
                           [stack |-> stack_p[r], count |-> my_count[r]]) IN
        /\ stack_p' = [stack_p EXCEPT ![r] = res.stack]
        /\ my_count' = [my_count EXCEPT ![r] = res.count]
    /\ tour_p' = [tour_p EXCEPT ![r] = NoTour]
    /\ pc' = [pc EXCEPT ![r] = "term"]
    /\ UNCHANGED <<n, thread_count, mat, best_tour, threads_in_cond_wait, new_stack,
                   new_stack_size, term_mutex, l_best_tour, city, submitted, expanded>>

(***************************************************************************)
(* Check_best_tour, lines 718-735                                          *)
(***************************************************************************)
\* the cost of the tour without the edge back to city 0
FullCostNoReturn(c, t) == t.cost

\* tour_p->cost + mat[city * n + 0]
FullCost(c, t) == t.cost + Cost(c, 0)

\* line 723, under the read lock
ReadCheck(c, t) == FullCost(c, t) < best_tour.cost

\* the write-locked section without the second comparison
WriteCheckSkipped(c, t) == TRUE

\* the second comparison with <= in place of <
WriteCheckNotStrict(c, t) == t.cost + Cost(c, 0) <= best_tour.cost

\* line 726, under the write lock
WriteCheck(c, t) == FullCost(c, t) < best_tour.cost

\* lines 727-731
NewBest(c, t) ==
    [cities |-> [i \in 1 .. (n + 1) |->
                    IF i <= Len(t.cities) THEN t.cities[i]
                    ELSE IF i = n + 1 THEN 0 ELSE best_tour.cities[i]],
     count |-> n + 1,
     cost |-> FullCost(c, t)]

\* lines 691-692 and 721-724: the tour is complete; the read-locked section
CheckBestRead(r) ==
    /\ pc[r] = "visit"
    /\ Len(tour_p[r].cities) = n
    /\ l_best_tour' = [l_best_tour EXCEPT ![r] = best_tour.cost]
    /\ submitted' = submitted \cup {[tour |-> tour_p[r], city |-> city[r]]}
    /\ IF ReadCheck(city[r], tour_p[r])
       THEN /\ pc' = [pc EXCEPT ![r] = "cbt_write"]
            /\ UNCHANGED tour_p
       ELSE /\ pc' = [pc EXCEPT ![r] = "term"]
            /\ tour_p' = [tour_p EXCEPT ![r] = NoTour]
    /\ UNCHANGED <<n, thread_count, mat, best_tour, threads_in_cond_wait, new_stack,
                   new_stack_size, term_mutex, stack_p, my_count, city, expanded>>

\* lines 725-734: the write-locked section, then the tour is freed
CheckBestWrite(r) ==
    /\ pc[r] = "cbt_write"
    /\ best_tour' = IF WriteCheck(city[r], tour_p[r])
                    THEN NewBest(city[r], tour_p[r]) ELSE best_tour
    /\ tour_p' = [tour_p EXCEPT ![r] = NoTour]
    /\ pc' = [pc EXCEPT ![r] = "term"]
    /\ UNCHANGED <<n, thread_count, mat, threads_in_cond_wait, new_stack,
                   new_stack_size, term_mutex, stack_p, my_count, l_best_tour,
                   city, submitted, expanded>>

\* any step of thread r
WorkerStep(r) ==
    \/ Seed(r)
    \/ TermCheckWaiters(r)
    \/ TermCheckStaging(r)
    \/ Lock(r)
    \/ Donate(r)
    \/ StackEmpty(r)
    \/ Awakened(r)
    \/ Pop(r)
    \/ PushNbrs(r)
    \/ CheckBestRead(r)
    \/ CheckBestWrite(r)

Next ==
    \E r \in Ranks :
        \/ Seed(r)
        \/ TermCheckWaiters(r)
        \/ TermCheckStaging(r)
        \/ Lock(r)
        \/ Donate(r)
        \/ StackEmpty(r)
        \/ Awakened(r)
        \/ Pop(r)
        \/ PushNbrs(r)
        \/ CheckBestRead(r)
        \/ CheckBestWrite(r)

Spec == Init /\ [][Next]_vars

CrowdSpec == InitCrowd /\ [][Next]_vars

WideSpec == InitWide /\ [][Next]_vars

(***************************************************************************)
(* The same program when pthread_cond_wait may return without a signal or  *)
(* broadcast (POSIX allows spurious wake-ups)                              *)
(***************************************************************************)
\* line 889: pthread_cond_wait returns 0 although nobody signalled
SpuriousWake(r) ==
    /\ pc[r] = "waiting"
    /\ pc' = [pc EXCEPT ![r] = "woken"]
    /\ UNCHANGED <<n, thread_count, mat, best_tour, threads_in_cond_wait, new_stack,
                   new_stack_size, term_mutex, stack_p, my_count, l_best_tour,
                   tour_p, city, submitted, expanded>>

\* lines 837-838: Pop dereferences a NULL stack pointer; the process dies
PopNull(r) ==
    /\ pc[r] = "pop"
    /\ Empty(stack_p[r])
    /\ pc' = [q \in Ranks |-> "crashed"]
    /\ UNCHANGED <<n, thread_count, mat, best_tour, threads_in_cond_wait, new_stack,
                   new_stack_size, term_mutex, stack_p, my_count, l_best_tour,
                   tour_p, city, submitted, expanded>>

NextSpurious ==
    \E r \in Ranks :
        \/ Seed(r)
        \/ TermCheckWaiters(r)
        \/ TermCheckStaging(r)
        \/ Lock(r)
        \/ Donate(r)
        \/ StackEmpty(r)
        \/ Awakened(r)
        \/ Pop(r)
        \/ PushNbrs(r)
        \/ CheckBestRead(r)
        \/ CheckBestWrite(r)
        \/ SpuriousWake(r)
        \/ PopNull(r)

SpuriousSpec == Init /\ [][NextSpurious]_vars

(***************************************************************************)
(* The static-partition program, lines 1-419: the same seeding, Pop, Push,   *)
(* Feasible and Check_best_tour, but Search loops on Empty and no work is    *)
(* ever handed over.  pc "term" is the head of its while loop.               *)
(***************************************************************************)
\* lines 207-238: the slice of first moves is linked into the thread's list
StaticSeed(r) ==
    /\ pc[r] = "seed"
    /\ stack_p' = [stack_p EXCEPT ![r] = SeedStack(r)]
    /\ pc' = [pc EXCEPT ![r] = "term"]
    /\ UNCHANGED <<n, thread_count, mat, best_tour, threads_in_cond_wait, new_stack,
                   new_stack_size, term_mutex, my_count, l_best_tour, tour_p, city,
                   submitted, expanded>>

\* line 246: while (!Empty(stack_p)); the thread returns when its list is empty
StaticLoop(r) ==
    /\ pc[r] = "term"
    /\ pc' = [pc EXCEPT ![r] = IF Empty(stack_p[r]) THEN "done" ELSE "pop"]
    /\ UNCHANGED <<n, thread_count, mat, best_tour, threads_in_cond_wait, new_stack,
                   new_stack_size, term_mutex, stack_p, my_count, l_best_tour,
                   tour_p, city, submitted, expanded>>

\* lines 247-250
StaticPop(r) ==
    /\ pc[r] = "pop"
    /\ LET top == Head(stack_p[r]) IN
        /\ tour_p' = [tour_p EXCEPT ![r] =
                        [cities |-> Append(top.tour_p.cities, top.city),
                         cost |-> top.tour_p.cost + top.cost]]
        /\ city' = [city EXCEPT ![r] = top.city]
        /\ expanded' = expanded \cup {Append(top.tour_p.cities, top.city)}
    /\ stack_p' = [stack_p EXCEPT ![r] = Tail(stack_p[r])]
    /\ pc' = [pc EXCEPT ![r] = "visit"]
    /\ UNCHANGED <<n, thread_count, mat, best_tour, threads_in_cond_wait, new_stack,
                   new_stack_size, term_mutex, my_count, l_best_tour, submitted>>

\* lines 253-262
StaticPushNbrs(r) ==
    /\ pc[r] = "visit"
    /\ Len(tour_p[r].cities) # n
    /\ stack_p' = [stack_p EXCEPT ![r] =
                     PushLoop(n - 1, city[r], tour_p[r], l_best_tour[r],
                              [stack |-> stack_p[r], count |-> 0]).stack]
    /\ tour_p' = [tour_p EXCEPT ![r] = NoTour]
    /\ pc' = [pc EXCEPT ![r] = "term"]
    /\ UNCHANGED <<n, thread_count, mat, best_tour, threads_in_cond_wait, new_stack,
                   new_stack_size, term_mutex, my_count, l_best_tour, city,
                   submitted, expanded>>

StaticNext ==
    \E r \in Ranks :
        \/ StaticSeed(r)
        \/ StaticLoop(r)
        \/ StaticPop(r)
        \/ StaticPushNbrs(r)
        \/ CheckBestRead(r)
        \/ CheckBestWrite(r)

StaticSpec == Init /\ [][StaticNext]_vars

\* the while loop of lines 246-263 run by one thread with no other thread
\* running: the cost of the champion when the thread's list is empty
RECURSIVE StaticLoopRun(_, _, _)
StaticLoopRun(stk, best, lbest) ==
    IF Empty(stk) THEN best
    ELSE LET top == Head(stk)
             t == [cities |-> Append(top.tour_p.cities, top.city),
                   cost |-> top.tour_p.cost + top.cost]
         IN  IF Len(t.cities) = n
             THEN StaticLoopRun(Tail(stk),
                                IF t.cost + Cost(top.city, 0) < best
                                THEN t.cost + Cost(top.city, 0) ELSE best,
                                best)
             ELSE StaticLoopRun(PushLoop(n - 1, top.city, t, lbest,
                                         [stack |-> Tail(stk), count |-> 0]).stack,
                                best, lbest)

\* the threads of ranks r .. thread_count-1 run one after the other
RECURSIVE StaticRun(_, _)
StaticRun(r, best) ==
    IF r >= thread_count THEN best
    ELSE StaticRun(r + 1, StaticLoopRun(SeedStack(r), best, INFINITY))

\* the cost the static-partition program prints for this input
StaticCost == StaticRun(0, INFINITY)

\* every thread that can take a step is eventually scheduled
FairSpec ==
    Spec /\ \A r \in 0 .. (MaxThreads - 1) : WF_vars(r \in Ranks /\ WorkerStep(r))

(***************************************************************************)
(* Reference notions for the properties                                    *)
(***************************************************************************)
AllHalted == \A r \in Ranks : pc[r] = "done"

\* thread r is blocked in pthread_cond_wait
Parked(r) == r \in Ranks /\ pc[r] = "waiting"

Min(S) == CHOOSE x \in S : \A y \in S : x <= y

\* the sum of the matrix costs of the consecutive edges of a city sequence
RECURSIVE PathCost(_)
PathCost(cs) ==
    IF Len(cs) < 2 THEN 0
    ELSE Cost(cs[1], cs[2]) + PathCost(Tail(cs))

\* the orders in which the cities 1 .. n-1 can be visited
Orders == {p \in [1 .. (n - 1) -> 1 .. (n - 1)] : \A i, j \in 1 .. (n - 1) : p[i] = p[j] => i = j}

\* the Hamiltonian cycles that start and end at city 0
Cycles == {<<0>> \o p \o <<0>> : p \in Orders}

OptCost == Min({PathCost(c) : c \in Cycles})

NoRepeat(cs) == \A i, j \in 1 .. Len(cs) : cs[i] = cs[j] => i = j

\* every work item that exists: on a thread's stack or in the staging slot
AllItems ==
    UNION {{stack_p[r][k] : k \in 1 .. Len(stack_p[r])} : r \in Ranks}
        \cup {new_stack[k] : k \in 1 .. Len(new_stack)}

\* what the program reports when no complete tour is lost: the cheapest cycle
\* that beats the initial bound, else the initial bound (with one city no
\* first move exists and nothing is ever submitted)
SerialCost ==
    IF n = 1 THEN INFINITY
    ELSE Min({INFINITY} \cup {PathCost(c) : c \in Cycles})

\* a single thread always ends with SerialCost
SerialRunCost == (AllHalted /\ thread_count = 1) => best_tour.cost = SerialCost

(***************************************************************************)
(* Properties                                                              *)
(***************************************************************************)

\* C1: a thread's Terminated call returns TRUE only when every thread's stack
\* is empty and the staging slot new_stack is NULL.
C1_HaltOnlyWithoutWork ==
    \A r \in Ranks :
        pc[r] = "done" => /\ \A q \in Ranks : stack_p[q] = <<>>
                          /\ new_stack = <<>>

\* C2: when all threads have halted, best_tour.cost is the minimum cost over
\* all Hamiltonian cycles that start and end at city 0.
C2_ReportsOptimum == AllHalted => best_tour.cost = OptCost

C4_CostIsSix ==
    (AllHalted /\ n = MatC4.n /\ mat = MatC4.mat /\ thread_count = 2)
        => best_tour.cost = 6

\* C4 (amended): for the example matrix and thread_count = 2 the cost
\* reported after all threads halt is 7.
C4_CostIsSeven ==
    (AllHalted /\ n = MatC4.n /\ mat = MatC4.mat /\ thread_count = 2)
        => best_tour.cost = 7

C4_Witness ==
    /\ AllHalted /\ n = MatC4.n /\ mat = MatC4.mat /\ thread_count = 2
    /\ best_tour.count = n + 1

\* C5: for a fixed cost matrix every terminating execution, whatever the
\* interleaving and the thread count, ends with the same best_tour.cost
\* (the one a single thread ends with).
C5_SameCostEveryRun == AllHalted => best_tour.cost = SerialCost

\* C6: once all submissions to Check_best_tour have returned, best_tour.cost
\* is the minimum of the initial bound and all submitted full-cycle costs,
\* and best_tour.cities holds a submitted tour of that cost.
C6_RegistryHoldsMinimum ==
    (\A r \in Ranks : pc[r] # "cbt_write") =>
        /\ best_tour.cost =
              Min({INFINITY} \cup {FullCost(s.city, s.tour) : s \in submitted})
        /\ best_tour.cost < INFINITY =>
              \E s \in submitted :
                  /\ FullCost(s.city, s.tour) = best_tour.cost
                  /\ best_tour.cities = s.tour.cities \o <<0>>
                  /\ best_tour.count = n + 1

\* two threads each passed the read-locked check against the initial bound
\* with a tour of their own, both went on to the write-locked section, and
\* the champion is the cheaper of the two tours
C6_Witness ==
    /\ \A r \in Ranks : pc[r] # "cbt_write"
    /\ thread_count = 2
    /\ \A r \in Ranks : l_best_tour[r] = INFINITY
    /\ Cardinality(submitted) = 2
    /\ \E s1, s2 \in submitted :
          /\ FullCost(s1.city, s1.tour) < FullCost(s2.city, s2.tour)
          /\ FullCost(s2.city, s2.tour) < INFINITY
          /\ best_tour.cost = FullCost(s1.city, s1.tour)

\* C7: a Check_best_tour step of a tour whose full-cycle cost is not below the
\* champion's cost leaves best_tour unchanged, and best_tour.cost never
\* increases.
C7_NoWorseNoChange ==
    [][/\ \A r \in Ranks :
            (/\ pc[r] \in {"visit", "cbt_write"}
             /\ pc'[r] # pc[r]
             /\ Len(tour_p[r].cities) = n
             /\ FullCost(city[r], tour_p[r]) >= best_tour.cost)
                => best_tour' = best_tour
       /\ best_tour'.cost <= best_tour.cost]_vars

\* a thread passed the read-locked check, and by the time it holds the write
\* lock its tour is no longer better than the champion
C7_Witness ==
    \E r \in Ranks :
        /\ pc[r] = "cbt_write"
        /\ FullCost(city[r], tour_p[r]) >= best_tour.cost

\* C8: after all threads have halted best_tour has count = n+1, starts and
\* ends at city 0, visits each city once, and its cost is the sum of its edges.
C8_FinalTourIsCycle ==
    AllHalted =>
        /\ best_tour.count = n + 1
        /\ best_tour.cities[1] = 0
        /\ best_tour.cities[n + 1] = 0
        /\ \A c \in 0 .. (n - 1) : \E i \in 1 .. n : best_tour.cities[i] = c
        /\ NoRepeat(SubSeq(best_tour.cities, 1, n))
        /\ best_tour.cost = PathCost(best_tour.cities)

\* the city sequence cs starts a minimum-cost cycle
OptimalPrefix(cs) ==
    \E c \in Cycles : PathCost(c) = OptCost /\ SubSeq(c, 1, Len(cs)) = cs

\* C9: when a thread expands a tour that is a prefix of a minimum-cost cycle
\* and nbr is the next city of that cycle, tour.cost + mat[city][nbr] is
\* below the thread's l_best_tour.
C9_OptimalPrefixSurvives ==
    \A r \in Ranks :
        (pc[r] = "visit" /\ Len(tour_p[r].cities) < n) =>
            \A nbr \in 1 .. (n - 1) :
                OptimalPrefix(Append(tour_p[r].cities, nbr)) =>
                    tour_p[r].cost + Cost(city[r], nbr) < l_best_tour[r]

\* C10: every work item on a stack or in staging has a candidate city that is
\* not in its tour, and every tour (on a stack, in staging, being expanded)
\* has no repeated city and begins with city 0.
C10_NoRepeatedCity ==
    /\ \A it \in AllItems :
          /\ ~Visited(it.city, it.tour_p)
          /\ NoRepeat(it.tour_p.cities)
          /\ it.tour_p.cities[1] = 0
    /\ \A r \in Ranks :
          tour_p[r] # NoTour =>
              NoRepeat(tour_p[r].cities) /\ tour_p[r].cities[1] = 0

\* a donated item for a tour of two cities is staged while another thread
\* expands a tour
C10_Witness ==
    /\ \E k \in 1 .. Len(new_stack) : Len(new_stack[k].tour_p.cities) >= 2
    /\ \E r \in Ranks : Len(tour_p[r].cities) >= 2

\* thread r executes Split_stack in this step: it holds the donation critical
\* section and the re-check of line 872 passes
Splits(r) == pc[r] = "split_cs" /\ pc'[r] = "pop" /\ CanDonate

\* C11: Split_stack partitions a stack of k >= 2 nodes by strict alternation:
\* nodes 1,3,5,... stay, nodes 2,4,6,... go to new_stack, in their original
\* order, ceil(k/2) and floor(k/2) of them, and the two sizes are exact.
C11_SplitAlternates ==
    [][\A r \in Ranks :
          Splits(r) =>
              LET k == Len(stack_p[r]) IN
              /\ k >= 2
              /\ stack_p'[r] = [i \in 1 .. ((k + 1) \div 2) |-> stack_p[r][2 * i - 1]]
              /\ new_stack' = [i \in 1 .. (k \div 2) |-> stack_p[r][2 * i]]
              /\ my_count'[r] = (k + 1) \div 2
              /\ new_stack_size' = k \div 2]_vars

\* a stack of five nodes has been split into three and two
C11_Witness ==
    \E r \in Ranks :
        /\ pc[r] = "pop"
        /\ Len(stack_p[r]) = 3 /\ my_count[r] = 3
        /\ Len(new_stack) = 2 /\ new_stack_size = 2
        /\ stack_p[r][1].city + 2 = stack_p[r][2].city
        /\ stack_p[r][2].city + 2 = stack_p[r][3].city
        /\ new_stack[1].city + 2 = new_stack[2].city

\* the first moves the code assigns to the thread of rank r
SliceOf(r) == first_final_city(r) .. last_final_city(r)

\* C12: the first-move slices of ranks 0 .. thread_count-1 are contiguous,
\* pairwise disjoint, cover exactly the cities 1 .. n-1 and differ in size by
\* at most one; each seeded work item has tour [0], candidate city i and edge
\* cost mat[0][i].
C12_SlicesPartition ==
    [][/\ first_final_city(0) = 1
       /\ last_final_city(thread_count - 1) = n - 1
       /\ \A r \in Ranks : r + 1 \in Ranks => first_final_city(r + 1) = last_final_city(r) + 1
       /\ \A r, q \in Ranks : r # q => SliceOf(r) \cap SliceOf(q) = {}
       /\ UNION {SliceOf(r) : r \in Ranks} = 1 .. (n - 1)
       /\ \A r, q \in Ranks : Cardinality(SliceOf(r)) - Cardinality(SliceOf(q)) <= 1
       /\ \A r \in Ranks :
             (pc[r] = "seed" /\ pc'[r] # "seed") =>
                 /\ Len(stack_p'[r]) = Cardinality(SliceOf(r))
                 /\ my_count'[r] = Cardinality(SliceOf(r))
                 /\ {stack_p'[r][k].city : k \in 1 .. Len(stack_p'[r])} = SliceOf(r)
                 /\ \A k \in 1 .. Len(stack_p'[r]) :
                       /\ stack_p'[r][k].tour_p = [cities |-> <<0>>, cost |-> 0]
                       /\ stack_p'[r][k].cost = Cost(0, stack_p'[r][k].city)
                       /\ k > 1 => stack_p'[r][k].city = stack_p'[r][k - 1].city + 1]_vars

\* two threads have seeded slices of unequal size, and no thread has moved on
C12_Witness ==
    /\ thread_count = 2
    /\ \A r \in Ranks : pc[r] = "term"
    /\ Len(stack_p[0]) = Len(stack_p[1]) + 1
    /\ Len(stack_p[1]) >= 2
    /\ expanded = {}

\* C13: Split_stack runs only while the donor holds term_mutex, its stack has
\* at least two nodes, threads_in_cond_wait > 0 and new_stack is NULL; a
\* non-NULL new_stack is never overwritten by another donation, even when
\* several workers have passed the unlocked pre-check.
C13_DonationGuarded ==
    [][/\ \A r \in Ranks :
             (pc[r] = "split_cs" /\ stack_p'[r] # stack_p[r]) =>
                 /\ term_mutex = {r}
                 /\ Len(stack_p[r]) >= 2
                 /\ my_count[r] >= 2
                 /\ threads_in_cond_wait > 0
                 /\ new_stack = <<>>
       /\ new_stack # <<>> => new_stack' \in {new_stack, <<>>}
       /\ (new_stack' # new_stack /\ new_stack' # <<>>) =>
             \E r \in Ranks : pc[r] = "split_cs" /\ stack_p'[r] # stack_p[r]]_vars

\* two workers passed the pre-check; one has donated, the other now holds the
\* mutex and finds new_stack occupied
C13_Witness ==
    \E r \in Ranks :
        /\ pc[r] = "split_cs"
        /\ term_mutex = {r}
        /\ Len(stack_p[r]) >= 2
        /\ threads_in_cond_wait > 0
        /\ new_stack # <<>>

\* C14: a worker that donates returns FALSE from that Terminated call without
\* waiting on term_cond_var; it retains a non-empty stack at least as large as
\* the donated one (which is non-empty too), and the head of the retained
\* stack is the node that was on top before the split.
C14_DonorKeepsRunning ==
    [][\A r \in Ranks :
          (pc[r] = "split_cs" /\ stack_p'[r] # stack_p[r]) =>
              /\ pc'[r] = "pop"
              /\ threads_in_cond_wait' = threads_in_cond_wait
              /\ Len(new_stack') >= 1
              /\ Len(stack_p'[r]) >= Len(new_stack')
              /\ Len(stack_p'[r]) + Len(new_stack') = Len(stack_p[r])
              /\ Head(stack_p'[r]) = Head(stack_p[r])]_vars

\* a donor of three nodes is back in its search loop with two of them, the
\* third is staged and not yet adopted
C14_Witness ==
    \E r \in Ranks :
        /\ pc[r] = "pop"
        /\ term_mutex = {}
        /\ Len(stack_p[r]) = 2
        /\ Len(new_stack) = 1
        /\ stack_p[r][1].city + 1 = new_stack[1].city
        /\ new_stack[1].city + 1 = stack_p[r][2].city
        /\ \E q \in Ranks : pc[q] = "woken"

\* C15: the wake conditions are re-checked after every wake: a parked worker
\* that returns from pthread_cond_wait while new_stack is NULL and
\* threads_in_cond_wait < thread_count adopts nothing, leaves
\* threads_in_cond_wait alone and does not resume running; it waits again.
C15_RecheckAfterWake ==
    [][\A r \in Ranks :
          (/\ pc[r] = "awake_cs"
           /\ pc'[r] # "awake_cs"
           /\ new_stack = <<>>
           /\ threads_in_cond_wait < thread_count) =>
              /\ pc'[r] = "waiting"
              /\ stack_p'[r] = stack_p[r]
              /\ my_count'[r] = my_count[r]
              /\ threads_in_cond_wait' = threads_in_cond_wait]_vars

\* C16: termination is terminal: Terminated returns TRUE only when
\* threads_in_cond_wait equals thread_count, and from the first state in which
\* threads_in_cond_wait equals thread_count its value never changes and no
\* worker pops, pushes, splits its stack or adopts new_stack again.
C16_TerminationIsTerminal ==
    [][/\ \A r \in Ranks :
             (pc[r] # "done" /\ pc'[r] = "done") => threads_in_cond_wait' = thread_count
       /\ threads_in_cond_wait = thread_count =>
             /\ threads_in_cond_wait' = threads_in_cond_wait
             /\ stack_p' = stack_p
             /\ my_count' = my_count
             /\ new_stack' = new_stack
             /\ new_stack_size' = new_stack_size
             /\ expanded' = expanded
             /\ \A r \in Ranks :
                   /\ pc[r] \in {"done", "waiting", "woken", "awake_cs"}
                   /\ pc'[r] \in {"done", "waiting", "woken", "awake_cs"}]_vars

\* the last running thread has quit and a woken thread is about to test
\* threads_in_cond_wait < thread_count
C16_Witness ==
    /\ threads_in_cond_wait = thread_count
    /\ \E r \in Ranks : pc[r] = "awake_cs" /\ term_mutex = {r}
    /\ \E q \in Ranks : pc[q] = "done"
    /\ expanded # {}

\* the next step of thread r reads or writes threads_in_cond_wait, new_stack
\* or new_stack_size, or waits on, signals or broadcasts term_cond_var: the
\* two halves of the test of line 870 (the first only when the stack size
\* test before it passes), and the bodies of lines 872-875, 882-889, 891-901
AccessesCoordinator(r) ==
    \/ pc[r] = "term" /\ my_count[r] >= 2
    \/ pc[r] \in {"term_staging", "split_cs", "empty_cs", "awake_cs"}

\* C17: every read and every write of threads_in_cond_wait, new_stack and
\* new_stack_size by a worker, and every wait, signal and broadcast on
\* term_cond_var, happens while that worker holds term_mutex.
C17_CoordinatorUnderMutex ==
    [][\A r \in Ranks :
          (AccessesCoordinator(r) /\ pc'[r] # pc[r]) => term_mutex = {r}]_vars

\* the number of nodes on the stacks and the staging list together
RECURSIVE NodeCount(_)
NodeCount(S) ==
    IF S = {} THEN Len(new_stack)
    ELSE LET r == CHOOSE x \in S : TRUE IN Len(stack_p[r]) + NodeCount(S \ {r})

\* no work item is on two lists, or twice on one
OneOwner == Cardinality(AllItems) = NodeCount(Ranks)

\* C18: no WorkItem is held in two places: the stacks of distinct workers and
\* the staging slot are pairwise disjoint; the staging slot is filled and
\* emptied only in one step of a worker holding term_mutex, together with
\* the change of that worker's stack; no partial tour is expanded twice.
C18_ExclusiveOwnership ==
    /\ OneOwner
    /\ [][/\ OneOwner'
          /\ \A r \in Ranks :
                (pc[r] = "pop" /\ pc'[r] # "pop") =>
                    Append(Head(stack_p[r]).tour_p.cities, Head(stack_p[r]).city)
                        \notin expanded
          /\ new_stack' # new_stack =>
                \E r \in Ranks :
                    /\ term_mutex = {r}
                    /\ stack_p'[r] # stack_p[r]
                    /\ \A q \in Ranks \ {r} : stack_p'[q] = stack_p[q]
                    /\ \/ new_stack = <<>> /\ pc[r] = "split_cs"
                       \/ new_stack' = <<>> /\ stack_p'[r] = new_stack]_vars

\* a worker holds a node that descends from a first move seeded on another
\* worker's stack, while that worker still holds nodes of its own
C18_Witness ==
    \E r, q \in Ranks :
        /\ r # q
        /\ stack_p[r] # <<>>
        /\ stack_p[q] # <<>>
        /\ new_stack = <<>>
        /\ LET item == Head(stack_p[q])
               first == IF Len(item.tour_p.cities) >= 2
                        THEN item.tour_p.cities[2] ELSE item.city
           IN  first \in SliceOf(r)

\* C19: each time a worker evaluates Terminated, my_count equals the number
\* of nodes on its own stack (after seeding, Pop, Push, Split_stack and
\* adoption of new_stack with new_stack_size), so Split_stack is entered only
\* with at least two nodes on the stack.
C19_CountMatchesStack ==
    /\ \A r \in Ranks :
          /\ my_count[r] = Len(stack_p[r])
          /\ (pc[r] \in {"term_staging", "split_lock", "split_cs"}) => Len(stack_p[r]) >= 2
    /\ new_stack_size = Len(new_stack)

\* a worker that adopted a donated list has grown it by pushes and is about
\* to split it in turn
C19_Witness ==
    \E r \in Ranks :
        /\ pc[r] = "split_cs"
        /\ CanDonate
        /\ my_count[r] >= 2
        /\ LET item == Head(stack_p[r]) IN
              /\ Len(item.tour_p.cities) >= 2
              /\ item.tour_p.cities[2] \notin SliceOf(r)

\* thread r pushes no node for the neighbour nbr of its current tour in this
\* step
NotPushed(r, nbr) ==
    ~ \E k \in 1 .. Len(stack_p'[r]) :
          /\ stack_p'[r][k].city = nbr
          /\ stack_p'[r][k].tour_p.cities = tour_p[r].cities

\* C20: each worker's local bound l_best_tour is never below best_tour.cost
\* (best_tour.cost never increases), so a neighbour rejected on cost grounds
\* satisfies tour.cost + mat[city][nbr] >= best_tour.cost when it is rejected.
C20_StaleBoundIsSafe ==
    /\ \A r \in Ranks : l_best_tour[r] >= best_tour.cost
    /\ [][/\ \A r \in Ranks : l_best_tour'[r] >= best_tour'.cost
          /\ best_tour'.cost <= best_tour.cost
          /\ \A r \in Ranks :
                (pc[r] = "visit" /\ pc'[r] # "visit" /\ Len(tour_p[r].cities) # n) =>
                    \A nbr \in 1 .. (n - 1) :
                        (~Visited(nbr, tour_p[r]) /\ NotPushed(r, nbr)) =>
                            tour_p[r].cost + Cost(city[r], nbr) >= best_tour.cost]_vars

\* a worker whose bound is stale is about to reject an unvisited neighbour
C20_Witness ==
    \E r \in Ranks :
        /\ pc[r] = "visit"
        /\ Len(tour_p[r].cities) # n
        /\ l_best_tour[r] > best_tour.cost
        /\ \E nbr \in 1 .. (n - 1) :
              /\ ~Visited(nbr, tour_p[r])
              /\ tour_p[r].cost + Cost(city[r], nbr) >= l_best_tour[r]

\* C21: the initial cost of the champion behaves as +infinity: whatever the
\* positive costs of the matrix, every unvisited neighbour passes the cost
\* test made against the initial bound, and a complete tour submitted while
\* the champion still has its initial cost is accepted.
C21_InitialBoundIsInfinite ==
    [][\A r \in Ranks :
          /\ (/\ pc[r] = "visit" /\ pc'[r] # "visit"
              /\ Len(tour_p[r].cities) # n
              /\ l_best_tour[r] = INFINITY) =>
                 \A nbr \in 1 .. (n - 1) :
                     ~Visited(nbr, tour_p[r]) => ~NotPushed(r, nbr)
          /\ (/\ pc[r] = "visit" /\ pc'[r] # "visit"
              /\ Len(tour_p[r].cities) = n
              /\ best_tour.cost = INFINITY) => pc'[r] = "cbt_write"
          /\ (/\ pc[r] = "cbt_write" /\ pc'[r] # "cbt_write"
              /\ best_tour.cost = INFINITY) =>
                 best_tour'.cost = FullCost(city[r], tour_p[r])]_vars

\* C22: for every tour on a stack, in staging or being expanded, tour.cost is
\* the sum of mat[cities[i]][cities[i+1]] over its consecutive cities, and
\* the edge cost stored in a work item is mat[last city of its tour][its
\* candidate city].
C22_CostIsSumOfEdges ==
    /\ \A item \in AllItems :
          /\ item.tour_p.cities # <<>>
          /\ item.tour_p.cost = PathCost(item.tour_p.cities)
          /\ item.cost = Cost(item.tour_p.cities[Len(item.tour_p.cities)], item.city)
    /\ \A r \in Ranks :
          pc[r] \in {"visit", "cbt_write"} =>
              /\ tour_p[r].cost = PathCost(tour_p[r].cities)
              /\ city[r] = tour_p[r].cities[Len(tour_p[r].cities)]

\* a node whose tour has an edge is staged while the donor keeps a node whose
\* tour has two edges
C22_Witness ==
    /\ \E k \in 1 .. Len(new_stack) :
          /\ Len(new_stack[k].tour_p.cities) >= 2
          /\ new_stack[k].tour_p.cost > 0
    /\ \E r \in Ranks : \E j \in 1 .. Len(stack_p[r]) :
          /\ Len(stack_p[r][j].tour_p.cities) >= 3
          /\ stack_p[r][j].tour_p.cost > stack_p[r][j].cost

\* C23: when every pthread_cond_signal wakes exactly one waiter and no wake-up
\* is spurious, Terminated returns FALSE only with a non-empty stack, so Pop
\* never runs on an empty stack; a woken worker that takes the "we got work"
\* branch finds new_stack non-NULL with new_stack_size >= 1.
C23_PopHasWork ==
    \A r \in Ranks :
        /\ pc[r] = "pop" => (~Empty(stack_p[r]) /\ my_count[r] >= 1)
        /\ (pc[r] = "awake_cs" /\ GotWork) => (new_stack # <<>> /\ new_stack_size >= 1)

\* a woken worker holds the mutex and is about to adopt the staged list while
\* another worker is parked and a third still runs
C23_Witness ==
    \E r, q \in Ranks :
        /\ pc[r] = "awake_cs"
        /\ GotWork
        /\ new_stack # <<>>
        /\ pc[q] = "waiting"
        /\ threads_in_cond_wait = 2

\* the workers inside the wait branch of Terminated: blocked on term_cond_var,
\* or woken and not yet past the test of line 891
InWaitBranch == {r \in Ranks : pc[r] \in {"waiting", "woken", "awake_cs"}}

\* the workers that have been woken and have not yet adopted or quit
Signalled == {r \in Ranks : pc[r] \in {"woken", "awake_cs"}}

\* C24: 0 <= threads_in_cond_wait <= thread_count; while it is below
\* thread_count it equals the number of workers inside the wait branch of
\* Terminated; new_stack is non-NULL only while at least one signalled worker
\* has not yet adopted it.
C24_WaitCountIsExact ==
    /\ 0 <= threads_in_cond_wait
    /\ threads_in_cond_wait <= thread_count
    /\ threads_in_cond_wait < thread_count =>
          threads_in_cond_wait = Cardinality(InWaitBranch)
    /\ new_stack # <<>> => Signalled # {}

\* every schedule of the static-partition program ends with StaticCost
StaticScheduleFree == AllHalted => best_tour.cost = StaticCost

\* C25: for every cost matrix and thread_count the load-balanced program ends
\* with the best_tour.cost the static-partition program ends with on the same
\* input.
C25_SameCostAsStatic == AllHalted => best_tour.cost = StaticCost

====
